---- MODULE Spec2Model ----
(***************************************************************************)
(* Portfolio analytics (portfolio.py) and the TIPS sensitivity sweep       *)
(* (sensitivity_analysis.py).                                              *)
(*                                                                         *)
(* Numbers.  A float is modelled as an exact rational or one of the three  *)
(* IEEE specials the code can produce (nan, +inf, -inf).  Rounding and the *)
(* sign of zero are not modelled.  Every number is a record                *)
(*     [k |-> "fin" | "nan" | "pinf" | "ninf", n |-> Int, d |-> Nat]       *)
(* in lowest terms, so that equality of records is equality of values.     *)
(* A standard deviation is irrational; quantities built from one are       *)
(* carried as their signed square x*|x| (a bijection on the extended       *)
(* reals), and the fields that hold a signed square end in "2".            *)
(***************************************************************************)
EXTENDS Integers, Sequences, FiniteSets, TLC

\* ------------------------------------------------------------------ bounds
\* Largest number of price observations (rows) the provider returns.
MaxRows == 3

\* ------------------------------------------------------ extended rationals
RECURSIVE Reduce(_, _, _, _)
\* n/d (d > 0) in lowest terms, by Euclid's algorithm on (a, b), which
\* starts as (d, n mod d).
Reduce(n, d, a, b) ==
    IF b = 0 THEN [k |-> "fin", n |-> n \div a, d |-> d \div a]
    ELSE Reduce(n, d, b, a % b)

NaN == [k |-> "nan", n |-> 0, d |-> 1]
PInf == [k |-> "pinf", n |-> 0, d |-> 1]
NInf == [k |-> "ninf", n |-> 0, d |-> 1]

\* The rational n/d (d # 0) in lowest terms with a positive denominator.
Fin(n, d) == IF d > 0 THEN Reduce(n, d, d, n % d) ELSE Reduce(-n, -d, -d, (-n) % (-d))

Zero == Fin(0, 1)
One == Fin(1, 1)

IsNaN(x) == x.k = "nan"
IsFinite(x) == x.k = "fin"

\* -1, 0, 1; only used on values that are not nan.
Sign(x) ==
    CASE x.k = "pinf" -> 1
      [] x.k = "ninf" -> -1
      [] OTHER -> IF x.n > 0 THEN 1 ELSE IF x.n < 0 THEN -1 ELSE 0

Signed(s) == IF s > 0 THEN PInf ELSE IF s < 0 THEN NInf ELSE NaN

Neg(x) ==
    CASE x.k = "nan" -> NaN
      [] x.k = "pinf" -> NInf
      [] x.k = "ninf" -> PInf
      [] OTHER -> [x EXCEPT !.n = -x.n]

Add(x, y) ==
    CASE IsNaN(x) \/ IsNaN(y) -> NaN
      [] IsFinite(x) /\ IsFinite(y) -> Fin(x.n * y.d + y.n * x.d, x.d * y.d)
      [] IsFinite(x) -> y
      [] IsFinite(y) -> x
      [] OTHER -> IF x = y THEN x ELSE NaN

Sub(x, y) == Add(x, Neg(y))

Mul(x, y) ==
    CASE IsNaN(x) \/ IsNaN(y) -> NaN
      [] IsFinite(x) /\ IsFinite(y) -> Fin(x.n * y.n, x.d * y.d)
      [] OTHER -> Signed(Sign(x) * Sign(y))

\* numpy true division: x/0 is +-inf, 0/0 is nan, and only a warning is issued.
Div(x, y) ==
    CASE IsNaN(x) \/ IsNaN(y) -> NaN
      [] IsFinite(x) /\ IsFinite(y) ->
            IF y.n = 0 THEN Signed(Sign(x)) ELSE Fin(x.n * y.d, x.d * y.n)
      [] IsFinite(x) -> Zero
      [] IsFinite(y) -> Signed(Sign(x) * (IF Sign(y) < 0 THEN -1 ELSE 1))
      [] OTHER -> NaN

\* IEEE comparisons: every comparison with nan is false.
Lt(x, y) ==
    CASE IsNaN(x) \/ IsNaN(y) -> FALSE
      [] IsFinite(x) /\ IsFinite(y) -> x.n * y.d < y.n * x.d
      [] x.k = "ninf" -> y.k # "ninf"
      [] y.k = "pinf" -> x.k # "pinf"
      [] OTHER -> FALSE

Le(x, y) == ~IsNaN(x) /\ ~IsNaN(y) /\ (x = y \/ Lt(x, y))

\* x*|x|, the signed square.
SSq(x) == IF IsNaN(x) THEN NaN ELSE Mul(x, IF Sign(x) < 0 THEN Neg(x) ELSE x)

\* ------------------------------------------------------------- sequences
RECURSIVE SumSeq(_)
SumSeq(s) == IF s = <<>> THEN Zero ELSE Add(Head(s), SumSeq(Tail(s)))

RECURSIVE SelectIdx(_, _, _)
\* The indices i of 1..n, ascending, with keep[i].
SelectIdx(keep, i, n) ==
    IF i > n THEN <<>>
    ELSE (IF keep[i] THEN <<i>> ELSE <<>>) \o SelectIdx(keep, i + 1, n)

Pick(s, idx) == [j \in 1..Len(idx) |-> s[idx[j]]]

NotNaNs(s) == Pick(s, SelectIdx([i \in 1..Len(s) |-> ~IsNaN(s[i])], 1, Len(s)))

RECURSIVE Insert(_, _)
\* x inserted into the ascending sequence s.
Insert(x, s) ==
    IF s = <<>> THEN <<x>>
    ELSE IF Lt(x, Head(s)) THEN <<x>> \o s
    ELSE <<Head(s)>> \o Insert(x, Tail(s))

RECURSIVE Sorted(_)
Sorted(s) == IF s = <<>> THEN <<>> ELSE Insert(Head(s), Sorted(Tail(s)))

\* ------------------------------------- pandas / numpy reductions (skipna)
\* Series.mean(): mean of the entries that are not nan; nan if there is none.
Mean(s) ==
    LET v == NotNaNs(s)
    IN  IF Len(v) = 0 THEN NaN ELSE Div(SumSeq(v), Fin(Len(v), 1))

\* Series.var(ddof=1): nan unless at least two entries are not nan.
Var(s) ==
    LET v == NotNaNs(s)
        avg == Div(SumSeq(v), Fin(Len(v), 1))
        sqr == [i \in 1..Len(v) |-> Mul(Sub(avg, v[i]), Sub(avg, v[i]))]
    IN  IF Len(v) <= 1 THEN NaN ELSE Div(SumSeq(sqr), Fin(Len(v) - 1, 1))

\* Series.cov(other) on two series with the same index: the pairs with a nan
\* are dropped, then numpy.cov(a, b, ddof=1)[0, 1].
Cov(a, b) ==
    LET idx == SelectIdx([i \in 1..Len(a) |-> ~IsNaN(a[i]) /\ ~IsNaN(b[i])], 1, Len(a))
        x == Pick(a, idx)
        y == Pick(b, idx)
        n == Len(idx)
        ax == Div(SumSeq(x), Fin(n, 1))
        ay == Div(SumSeq(y), Fin(n, 1))
        c == SumSeq([i \in 1..n |-> Mul(Sub(x[i], ax), Sub(y[i], ay))])
    IN  IF n < 1 THEN NaN ELSE Mul(c, Div(One, Fin(n - 1, 1)))

\* numpy's _lerp(a, b, t).
Lerp(a, b, t) ==
    IF Lt(t, Fin(1, 2))
    THEN Add(a, Mul(Sub(b, a), t))
    ELSE Sub(b, Mul(Sub(b, a), Sub(One, t)))

\* Series.quantile(q), linear interpolation, over the entries that are not nan.
Quantile(s, q) ==
    LET v == Sorted(NotNaNs(s))
        n == Len(v)
        vi == Mul(Fin(n - 1, 1), q)
        lo == vi.n \div vi.d
        hi == IF lo + 1 > n - 1 THEN n - 1 ELSE lo + 1
        gamma == Sub(vi, Fin(lo, 1))
    IN  IF n = 0 THEN NaN ELSE Lerp(v[lo + 1], v[hi + 1], gamma)

\* ------------------------------------------------------- market provider
\* Tickers known to the provider, and their alphabetical rank.
Tickers == {"AGG", "SPY", "TIP"}
Rank == [t \in Tickers |-> CASE t = "AGG" -> 1 [] t = "SPY" -> 2 [] OTHER -> 3]

\* Shapes of a ticker's adjusted-close history: doubling every period
\* (constant return 1), alternating between 50 and 100 (returns 1 and -1/2),
\* and "thin", a ticker quoted only every other period (no price on odd dates).
Histories == {"double", "zig", "thin"}

RECURSIVE Pow2(_)
Pow2(e) == IF e = 0 THEN 1 ELSE 2 * Pow2(e - 1)

PriceAt(h, t) ==
    CASE h = "double" -> Fin(100 * Pow2(t - 1), 1)
      [] h = "zig" -> IF t % 2 = 1 THEN Fin(50, 1) ELSE Fin(100, 1)
      [] OTHER -> IF t % 2 = 1 THEN NaN ELSE Fin(100 * (t \div 2), 1)

RECURSIVE SortedTickers(_)
SortedTickers(S) ==
    IF S = {} THEN <<>>
    ELSE LET m == CHOOSE t \in S : \A u \in S : Rank[t] <= Rank[u]
         IN  <<m>> \o SortedTickers(S \ {m})

Range(s) == {s[i] : i \in 1..Len(s)}

\* ---------------------------------------------------------------- inputs
TickerWeight(ticker, weight) == [ticker |-> ticker, weight |-> weight]

\* assets_1 and assets_2 of the reporting scripts.
assets_1 == <<TickerWeight("SPY", Fin(6, 10)), TickerWeight("AGG", Fin(4, 10))>>
assets_2 == <<TickerWeight("SPY", Fin(6, 10)), TickerWeight("AGG", Fin(3, 10)),
              TickerWeight("TIP", Fin(1, 10))>>

\* Asset lists a caller of Portfolio may supply: the two above, one ticker
\* entered twice with equal weights, and raw weights that cancel.
AssetLists ==
    { assets_1, assets_2,
      <<TickerWeight("SPY", One), TickerWeight("SPY", One)>>,
      <<TickerWeight("SPY", One), TickerWeight("AGG", Fin(-1, 1))>> }

\* risk_free_rate arguments: the default 0.0 and one above it.
RiskFreeRates == {Zero, Fin(1, 2)}

\* alpha, the default of portfolio_volatility_metrics (no caller passes another).
DefaultAlpha == Fin(5, 100)

\* ----------------------------------------------------------------- state
VARIABLES
    market,            \* provider: ticker -> its price observations in the date range
    main,              \* which program runs: "portfolio" (callers of the class) or "sensitivity"
    portfolio_1,       \* <<>> or <<the Portfolio object>>
    portfolio_2,
    last,              \* the latest constructor or method call and what it returned
    pc,                \* plot_sensitivity_analysis: "build", "collect", "plot", "done",
                       \* or the exception that ended it: "fetch_error", "ValueError", "IndexError"
    portfolios,        \* locals of plot_sensitivity_analysis
    sharpe_ratios,
    cvars,
    sortino_ratios,
    portfolio_values,
    net_returns

sweep == <<pc, portfolios, sharpe_ratios, cvars, sortino_ratios, portfolio_values, net_returns>>
vars == <<market, main, portfolio_1, portfolio_2, last, pc, portfolios, sharpe_ratios,
          cvars, sortino_ratios, portfolio_values, net_returns>>

NumRows == Len(market["SPY"])

\* -------------------------------------------------------------- Portfolio
\* yf.download(tickers, ...)['Adj Close']: one row per date, one column per
\* DISTINCT ticker, the columns in alphabetical order of the ticker (yfinance
\* turns the list into a set and sorts the column index).
get_market_data(tickers) ==
    LET cols == SortedTickers(Range(tickers))
    IN  [columns |-> cols,
         index |-> [t \in 1..NumRows |-> t],
         values |-> [t \in 1..NumRows |-> [c \in 1..Len(cols) |-> market[cols[c]][t]]]]

RECURSIVE FFill(_, _, _)
\* DataFrame.ffill(): the last price of column c that is not missing, at or before row t.
FFill(values, t, c) ==
    IF t = 0 THEN NaN
    ELSE IF ~IsNaN(values[t][c]) THEN values[t][c]
    ELSE FFill(values, t - 1, c)

\* DataFrame.pct_change() (pandas 2.x: missing prices are padded first);
\* the first row has no previous row and is nan.
pct_change(df) ==
    [df EXCEPT !.values =
        [t \in 1..Len(df.index) |->
            [c \in 1..Len(df.columns) |->
                IF t = 1 THEN NaN
                ELSE Sub(Div(FFill(df.values, t, c), FFill(df.values, t - 1, c)), One)]]]

\* DataFrame.dropna(): the rows without any nan, with their dates.
dropna(df) ==
    LET keep == [t \in 1..Len(df.index) |->
                    \A c \in 1..Len(df.columns) : ~IsNaN(df.values[t][c])]
        idx == SelectIdx(keep, 1, Len(df.index))
    IN  [df EXCEPT !.index = Pick(df.index, idx), !.values = Pick(df.values, idx)]

\* Faulty variant: the undefined first row is kept.
calculate_market_returns_no_dropna(market_data) == pct_change(market_data)

calculate_market_returns(market_data) == dropna(pct_change(market_data))

\* self.weights / np.sum(self.weights)
Normalize(raw) == [i \in 1..Len(raw) |-> Div(raw[i], SumSeq(raw))]

\* The object __post_init__ leaves behind.
post_init(assets) ==
    LET tickers == [i \in 1..Len(assets) |-> assets[i].ticker]
        md == get_market_data(tickers)
    IN  [assets |-> assets,
         tickers |-> tickers,
         weights |-> Normalize([i \in 1..Len(assets) |-> assets[i].weight]),
         market_data |-> md,
         market_returns |-> calculate_market_returns(md)]

Raised == [status |-> "raised"]

RECURSIVE RunProd(_, _)
\* The product of the first n entries, a nan entry counting as 1.
RunProd(v, n) ==
    IF n = 0 THEN One ELSE Mul(RunProd(v, n - 1), IF IsNaN(v[n]) THEN One ELSE v[n])

\* Series.cumprod(), skipna: the nan entries are set to 1 for the running
\* product and put back as nan in the result.
cumprod(v) == [t \in 1..Len(v) |-> IF IsNaN(v[t]) THEN NaN ELSE RunProd(v, t)]

\* Series.diff(): the first entry is nan.
diff(v) == [t \in 1..Len(v) |-> IF t = 1 THEN NaN ELSE Sub(v[t], v[t - 1])]

fillna(v, x) == [t \in 1..Len(v) |-> IF IsNaN(v[t]) THEN x ELSE v[t]]

\* DataFrame @ ndarray: positional (labels are not consulted); raises
\* ValueError unless there is one weight per column.
MatMul(df, w) ==
    [t \in 1..Len(df.index) |->
        SumSeq([c \in 1..Len(df.columns) |-> Mul(df.values[t][c], w[c])])]

portfolio_return_metrics(self) ==
    LET mr == self.market_returns
        portfolio_returns == MatMul(mr, self.weights)
        portfolio_value == cumprod([t \in 1..Len(portfolio_returns) |->
                                       Add(One, portfolio_returns[t])])
        cumulative_pnl == [t \in 1..Len(portfolio_value) |-> Sub(portfolio_value[t], One)]
        pnl == fillna(diff(portfolio_value), Zero)
        S(v) == [index |-> mr.index, values |-> v]
    IN  IF Len(mr.columns) # Len(self.weights) THEN Raised
        ELSE [status |-> "ok",
              portfolio_returns |-> S(portfolio_returns),
              portfolio_value |-> S(portfolio_value),
              cumulative_pnl |-> S(cumulative_pnl),
              pnl |-> S(pnl)]

\* Faulty variant: the comparison is the wrong way round.
downside_returns_flipped(pr, risk_free_rate) ==
    Pick(pr, SelectIdx([t \in 1..Len(pr) |-> Lt(risk_free_rate, pr[t])], 1, Len(pr)))

\* portfolio_returns[portfolio_returns < risk_free_rate]
downside_returns(pr, risk_free_rate) ==
    Pick(pr, SelectIdx([t \in 1..Len(pr) |-> Lt(pr[t], risk_free_rate)], 1, Len(pr)))

\* std2, sharpe2 and sortino2 are the signed squares of the returned
\* annualized std, Sharpe ratio and Sortino ratio.
portfolio_volatility_metrics(self, risk_free_rate, alpha) ==
    LET rm == portfolio_return_metrics(self)
        pr == rm.portfolio_returns.values
        mr == self.market_returns
        market_returns == [t \in 1..Len(mr.index) |-> Mean(mr.values[t])]
        portfolio_beta == Div(Cov(pr, market_returns), Var(market_returns))
        portfolio_var == Quantile(pr, alpha)
        portfolio_cvar ==
            Mean(Pick(pr, SelectIdx([t \in 1..Len(pr) |-> Le(pr[t], portfolio_var)], 1, Len(pr))))
        std2 == Mul(Var(pr), Fin(12 * 100 * 100, 1))
        excess2 == SSq(Sub(Mean(pr), risk_free_rate))
        sharpe2 == Mul(Div(excess2, std2), Fin(12, 1))
        downside == downside_returns(pr, risk_free_rate)
        downside_var == IF downside # <<>> THEN Var(downside) ELSE NaN
        sortino2 == IF ~IsNaN(downside_var) THEN Div(excess2, downside_var) ELSE NaN
    IN  IF rm.status = "raised" THEN Raised
        ELSE [status |-> "ok", std2 |-> std2, beta |-> portfolio_beta,
              sharpe2 |-> sharpe2, cvar |-> portfolio_cvar, sortino2 |-> sortino2]

\* contrib2[i] is the signed square of std(column i) * weights[i]; a Series
\* times an ndarray of another length raises ValueError.
asset_volatility_decomposition(self) ==
    LET mr == self.market_returns
        col(c) == [t \in 1..Len(mr.index) |-> mr.values[t][c]]
    IN  IF Len(mr.columns) # Len(self.weights) THEN Raised
        ELSE [status |-> "ok",
              index |-> mr.columns,
              contrib2 |-> [c \in 1..Len(mr.columns) |->
                               Mul(Var(col(c)), SSq(self.weights[c]))]]

\* --------------------------------------------------- callers of Portfolio
NoCall == [op |-> "none", slot |-> 0, rf |-> Zero, out |-> [status |-> "none"]]

Call(op, slot, rf, out) == [op |-> op, slot |-> slot, rf |-> rf, out |-> out]

Init ==
    /\ \E h \in [Tickers -> Histories], n \in 0..MaxRows :
          market = [t \in Tickers |-> [i \in 1..n |-> PriceAt(h[t], i)]]
    /\ main \in {"portfolio", "sensitivity"}
    /\ portfolio_1 = <<>>
    /\ portfolio_2 = <<>>
    /\ last = NoCall
    /\ pc = "build"
    /\ portfolios = <<>>
    /\ sharpe_ratios = <<>>
    /\ cvars = <<>>
    /\ sortino_ratios = <<>>
    /\ portfolio_values = <<>>
    /\ net_returns = <<>>

Slot(i) == IF i = 1 THEN portfolio_1 ELSE portfolio_2

\* No exception is caught anywhere: a call that raised ended the program.
Running == main = "portfolio" /\ last.out.status # "raised"

\* portfolio_1 = Portfolio(assets, start_date, end_date), the fetch succeeding.
Construct1(assets) ==
    /\ Running
    /\ portfolio_1 = <<>>
    /\ portfolio_1' = <<post_init(assets)>>
    /\ last' = Call("Portfolio", 1, Zero, [status |-> "ok"])
    /\ UNCHANGED <<market, main, portfolio_2>>
    /\ UNCHANGED sweep

\* portfolio_2 = Portfolio(assets_2, start_date, end_date), the fetch succeeding.
Construct2 ==
    /\ Running
    /\ portfolio_2 = <<>>
    /\ portfolio_2' = <<post_init(assets_2)>>
    /\ last' = Call("Portfolio", 2, Zero, [status |-> "ok"])
    /\ UNCHANGED <<market, main, portfolio_1>>
    /\ UNCHANGED sweep

\* Either constructor call, the provider raising: the exception leaves
\* __post_init__ and the constructor call, and nothing is bound.
ConstructFetchFails(i) ==
    /\ Running
    /\ Slot(i) = <<>>
    /\ last' = Call("Portfolio", i, Zero, Raised)
    /\ UNCHANGED <<market, main, portfolio_1, portfolio_2>>
    /\ UNCHANGED sweep

\* Faulty variant: the product is written into self.weights (weights *= volatilities).
CallDecompositionInPlace(i) ==
    /\ Running
    /\ Slot(i) # <<>>
    /\ LET out == asset_volatility_decomposition(Slot(i)[1])
           after == IF out.status = "ok"
                    THEN <<[Slot(i)[1] EXCEPT !.weights = out.contrib2]>>
                    ELSE Slot(i)
       IN  /\ last' = Call("asset_volatility_decomposition", i, Zero, out)
           /\ portfolio_1' = IF i = 1 THEN after ELSE portfolio_1
           /\ portfolio_2' = IF i = 2 THEN after ELSE portfolio_2
    /\ UNCHANGED <<market, main>>
    /\ UNCHANGED sweep

CallDecomposition(i) ==
    /\ Running
    /\ Slot(i) # <<>>
    /\ last' = Call("asset_volatility_decomposition", i, Zero,
                    asset_volatility_decomposition(Slot(i)[1]))
    /\ UNCHANGED <<market, main, portfolio_1, portfolio_2>>
    /\ UNCHANGED sweep

CallReturnMetrics(i) ==
    /\ Running
    /\ Slot(i) # <<>>
    /\ last' = Call("portfolio_return_metrics", i, Zero, portfolio_return_metrics(Slot(i)[1]))
    /\ UNCHANGED <<market, main, portfolio_1, portfolio_2>>
    /\ UNCHANGED sweep

CallVolatilityMetrics(i, rf) ==
    /\ Running
    /\ Slot(i) # <<>>
    /\ last' = Call("portfolio_volatility_metrics", i, rf,
                    portfolio_volatility_metrics(Slot(i)[1], rf, DefaultAlpha))
    /\ UNCHANGED <<market, main, portfolio_1, portfolio_2>>
    /\ UNCHANGED sweep

\* ------------------------------------------------ plot_sensitivity_analysis
\* np.arange(start, stop, step): ceil((stop - start) / step) points from start.
arange(start, stop, step) ==
    LET q == Div(Sub(stop, start), step)
        n == -((-q.n) \div q.d)
    IN  [k \in 1..n |-> Add(start, Mul(Fin(k - 1, 1), step))]

\* np.arange(0, 0.21, 0.05)
Grid == arange(Zero, Fin(21, 100), Fin(5, 100))

SweepTickers == <<"SPY", "AGG", "TIP">>

\* Faulty variant: the TIPS allocation is not taken out of the AGG allocation.
SweepWeights_no_tradeoff(tips_allocation) ==
    <<Fin(6, 10), Fin(4, 10), tips_allocation>>

SweepWeights(tips_allocation) ==
    <<Fin(6, 10), Sub(Fin(4, 10), tips_allocation), tips_allocation>>

SweepAssets(tips_allocation) ==
    [i \in 1..Len(SweepTickers) |->
        TickerWeight(SweepTickers[i], SweepWeights(tips_allocation)[i])]

\* One pass of the construction loop, the fetch succeeding.
SweepBuild ==
    /\ main = "sensitivity"
    /\ pc = "build"
    /\ Len(portfolios) < Len(Grid)
    /\ portfolios' = Append(portfolios, post_init(SweepAssets(Grid[Len(portfolios) + 1])))
    /\ pc' = IF Len(portfolios') = Len(Grid) THEN "collect" ELSE "build"
    /\ UNCHANGED <<market, main, portfolio_1, portfolio_2, last>>
    /\ UNCHANGED <<sharpe_ratios, cvars, sortino_ratios, portfolio_values, net_returns>>

\* One pass of the construction loop, the provider raising.
SweepBuildFetchFails ==
    /\ main = "sensitivity"
    /\ pc = "build"
    /\ Len(portfolios) < Len(Grid)
    /\ pc' = "fetch_error"
    /\ UNCHANGED <<market, main, portfolio_1, portfolio_2, last>>
    /\ UNCHANGED <<portfolios, sharpe_ratios, cvars, sortino_ratios, portfolio_values,
                   net_returns>>

\* One pass of the metrics loop over portfolios.  portfolio_value.iloc[-1]
\* raises IndexError on an empty series, after the four appends before it.
SweepCollect ==
    /\ main = "sensitivity"
    /\ pc = "collect"
    /\ Len(net_returns) < Len(portfolios)
    /\ LET portfolio == portfolios[Len(net_returns) + 1]
           rm == portfolio_return_metrics(portfolio)
           vm == portfolio_volatility_metrics(portfolio, Zero, DefaultAlpha)
           pv == rm.portfolio_value
       IN  IF rm.status = "raised" \/ vm.status = "raised"
           THEN /\ pc' = "ValueError"
                /\ UNCHANGED <<sharpe_ratios, cvars, sortino_ratios, portfolio_values,
                               net_returns>>
           ELSE /\ sharpe_ratios' = Append(sharpe_ratios, vm.sharpe2)
                /\ cvars' = Append(cvars, vm.cvar)
                /\ sortino_ratios' = Append(sortino_ratios, vm.sortino2)
                /\ portfolio_values' = Append(portfolio_values, pv)
                /\ IF pv.values = <<>>
                   THEN /\ pc' = "IndexError"
                        /\ UNCHANGED net_returns
                   ELSE /\ net_returns' = Append(net_returns, pv.values[Len(pv.values)])
                        /\ pc' = IF Len(net_returns') = Len(portfolios)
                                 THEN "plot" ELSE "collect"
    /\ UNCHANGED <<market, main, portfolio_1, portfolio_2, last, portfolios>>

\* The three figures: rendering only, the lists are read.
SweepPlot ==
    /\ main = "sensitivity"
    /\ pc = "plot"
    /\ pc' = "done"
    /\ UNCHANGED <<market, main, portfolio_1, portfolio_2, last>>
    /\ UNCHANGED <<portfolios, sharpe_ratios, cvars, sortino_ratios, portfolio_values,
                   net_returns>>

Next ==
    \/ \E assets \in AssetLists : Construct1(assets)
    \/ Construct2
    \/ \E i \in {1, 2} : ConstructFetchFails(i)
    \/ \E i \in {1, 2} : CallDecomposition(i)
    \/ \E i \in {1, 2} : CallReturnMetrics(i)
    \/ \E i \in {1, 2}, rf \in RiskFreeRates : CallVolatilityMetrics(i, rf)
    \/ SweepBuild
    \/ SweepBuildFetchFails
    \/ SweepCollect
    \/ SweepPlot

Spec == Init /\ [][Next]_vars

\* ------------------------------------------------------------- properties
Methods == {"asset_volatility_decomposition", "portfolio_return_metrics",
            "portfolio_volatility_metrics"}

\* Every Portfolio object that exists.
AllObjs == Range(portfolio_1) \cup Range(portfolio_2) \cup Range(portfolios)

\* The object the latest method call was made on.
LastSelf == Slot(last.slot)[1]

RawWeights(obj) == [i \in 1..Len(obj.assets) |-> obj.assets[i].weight]

NoMissing(df) ==
    \A t \in 1..Len(df.index), c \in 1..Len(df.columns) : ~IsNaN(df.values[t][c])

\* The return series of a ticker: the column of market_returns with that label.
OwnReturns(obj, ticker) ==
    LET mr == obj.market_returns
        c == CHOOSE c \in 1..Len(mr.columns) : mr.columns[c] = ticker
    IN  [t \in 1..Len(mr.index) |-> mr.values[t][c]]

ReturnsCall == last.op = "portfolio_return_metrics" /\ last.out.status = "ok"

\* C1: after construction, for any nonzero raw weight vector, weights[i] is
\* raw[i] / sum(raw), there is one weight per asset entry (entries of one
\* ticker are not merged) and the weights sum to 1.
C1_WeightsNormalized ==
    \A obj \in AllObjs :
        LET raw == RawWeights(obj)
        IN  (\E i \in 1..Len(raw) : raw[i] # Zero) =>
                /\ Len(obj.weights) = Len(obj.assets)
                /\ \A i \in 1..Len(raw) : obj.weights[i] = Div(raw[i], SumSeq(raw))
                /\ SumSeq(obj.weights) = One

\* C2 as stated: market_returns always has exactly one row fewer than market_data.
C2_OneFewerRowAlways ==
    \A obj \in AllObjs : Len(obj.market_returns.index) = Len(obj.market_data.index) - 1

\* C2 amended: when market_data has at least one row and no missing price,
\* market_returns has exactly one row fewer; in every case it has no more
\* rows than that, and none for an empty table.
C2_OneFewerRow ==
    \A obj \in AllObjs :
        LET md == Len(obj.market_data.index)
            mr == Len(obj.market_returns.index)
        IN  /\ (md >= 1 /\ NoMissing(obj.market_data)) => mr = md - 1
            /\ mr <= (IF md = 0 THEN 0 ELSE md - 1)

C2_Witness ==
    \E obj \in AllObjs :
        /\ Len(obj.market_data.index) = MaxRows
        /\ NoMissing(obj.market_data)
        /\ Len(obj.market_returns.index) = MaxRows - 1

\* C3: portfolio_return_metrics returns, for every period t, the sum over the
\* asset entries i of weights[i] times the period-t return of assets[i].ticker.
\* (Stated for finite weights, where the two sums are numbers to compare.)
C3_OwnAssetReturns ==
    (ReturnsCall /\ \A i \in 1..Len(LastSelf.weights) : IsFinite(LastSelf.weights[i])) =>
        \A t \in 1..Len(last.out.portfolio_returns.values) :
            last.out.portfolio_returns.values[t] =
                SumSeq([i \in 1..Len(LastSelf.assets) |->
                           Mul(LastSelf.weights[i],
                               OwnReturns(LastSelf, LastSelf.assets[i].ticker)[t])])

\* C4: portfolio_value[0] = 1 + portfolio_returns[0], portfolio_value[t] =
\* portfolio_value[t-1] * (1 + portfolio_returns[t]) for t > 0, and
\* cumulative_pnl[t] = portfolio_value[t] - 1 for every t.
C4_Compounding ==
    ReturnsCall =>
        LET pr == last.out.portfolio_returns.values
            pv == last.out.portfolio_value.values
            cp == last.out.cumulative_pnl.values
        IN  /\ Len(pv) = Len(pr) /\ Len(cp) = Len(pr)
            /\ \A t \in 1..Len(pr) :
                  /\ pv[t] = IF t = 1 THEN Add(One, pr[1])
                             ELSE Mul(pv[t - 1], Add(One, pr[t]))
                  /\ cp[t] = Sub(pv[t], One)

\* C5: on a non-empty return series pnl[0] = 0 and pnl[t] = portfolio_value[t]
\* - portfolio_value[t-1] for t > 0, and pnl has the length and the date
\* index of portfolio_returns, portfolio_value and cumulative_pnl.
C5_PeriodPnl ==
    ReturnsCall =>
        LET pv == last.out.portfolio_value.values
            pnl == last.out.pnl
        IN  /\ pnl.index = last.out.portfolio_returns.index
            /\ pnl.index = last.out.portfolio_value.index
            /\ pnl.index = last.out.cumulative_pnl.index
            /\ Len(pnl.values) = Len(pnl.index) /\ Len(pv) = Len(pnl.index)
            /\ \A t \in 1..Len(pv) :
                  pnl.values[t] = IF t = 1 THEN Zero ELSE Sub(pv[t], pv[t - 1])

\* C6: the sweep runs over the grid [0, 0.05, 0.10, 0.15, 0.20]; it builds
\* exactly 5 Portfolio objects, the k-th from raw weights [0.6, 0.4 - p_k, p_k]
\* with normalized weights summing to 1; and it collects 5 Sharpe, CVaR,
\* Sortino, portfolio_value and net-return entries, the k-th of each computed
\* from the k-th Portfolio.
C6_SweepGridOrder ==
    main = "sensitivity" =>
        LET grid == <<Zero, Fin(5, 100), Fin(10, 100), Fin(15, 100), Fin(20, 100)>>
            vm(k) == portfolio_volatility_metrics(portfolios[k], Zero, Fin(5, 100))
            pv(k) == portfolio_return_metrics(portfolios[k]).portfolio_value
        IN  /\ Len(portfolios) <= 5
            /\ \A k \in 1..Len(portfolios) :
                  /\ RawWeights(portfolios[k]) =
                        <<Fin(6, 10), Sub(Fin(4, 10), grid[k]), grid[k]>>
                  /\ SumSeq(portfolios[k].weights) = One
            /\ pc \in {"collect", "plot", "done"} => Len(portfolios) = 5
            /\ \A k \in 1..Len(sharpe_ratios) : sharpe_ratios[k] = vm(k).sharpe2
            /\ \A k \in 1..Len(cvars) : cvars[k] = vm(k).cvar
            /\ \A k \in 1..Len(sortino_ratios) : sortino_ratios[k] = vm(k).sortino2
            /\ \A k \in 1..Len(portfolio_values) : portfolio_values[k] = pv(k)
            /\ \A k \in 1..Len(net_returns) :
                  net_returns[k] = pv(k).values[Len(pv(k).values)]
            /\ pc \in {"plot", "done"} =>
                  /\ Len(sharpe_ratios) = 5 /\ Len(cvars) = 5 /\ Len(sortino_ratios) = 5
                  /\ Len(portfolio_values) = 5 /\ Len(net_returns) = 5

C6_Witness ==
    /\ pc = "done"
    /\ Len(portfolios) = 5
    /\ Len(net_returns) = 5
    /\ net_returns[1] # net_returns[5]

\* C7: with fewer than 2 price observations in the date range nothing raises:
\* the methods return (possibly empty or nan) results and the sweep's metrics
\* loop is not ended by an exception.  (A call on a Portfolio that lists a
\* ticker twice is left out: it raises whatever the date range.)
C7_DegenerateNeverRaises ==
    NumRows < 2 =>
        /\ pc \notin {"ValueError", "IndexError"}
        /\ (last.op \in Methods /\ Len(LastSelf.tickers) = Len(LastSelf.market_data.columns))
              => last.out.status = "ok"

\* C8: every Portfolio object that exists has finite normalized weights and
\* its market_data and market_returns; a constructor call that raised bound
\* nothing.
C8_NoPartialObject ==
    \A obj \in AllObjs :
        /\ \A i \in 1..Len(obj.weights) : IsFinite(obj.weights[i])
        /\ obj.market_data = get_market_data(obj.tickers)
        /\ obj.market_returns = calculate_market_returns(obj.market_data)

VolCall == last.op = "portfolio_volatility_metrics" /\ last.out.status = "ok"

LastReturns == portfolio_return_metrics(LastSelf).portfolio_returns.values

NoneBelow(pr, rf) == \A t \in 1..Len(pr) : ~Lt(pr[t], rf)

\* C9: when no portfolio return is strictly below risk_free_rate the Sortino
\* ratio is nan, while std, beta, Sharpe and CVaR are computed as always: on
\* two or more finite returns std and CVaR are finite numbers, beta is nan
\* only if the benchmark has zero variance, and Sharpe is nan only if the
\* excess return and the std are both zero.
C9_SortinoUndefined ==
    (VolCall /\ NoneBelow(LastReturns, last.rf)) =>
        LET pr == LastReturns
            mr == LastSelf.market_returns
            bench == [t \in 1..Len(mr.index) |-> Mean(mr.values[t])]
        IN  /\ IsNaN(last.out.sortino2)
            /\ (Len(pr) >= 2 /\ \A t \in 1..Len(pr) : IsFinite(pr[t])) =>
                  /\ last.out.std2 = Mul(Var(pr), Fin(120000, 1))
                  /\ IsFinite(last.out.std2)
                  /\ IsFinite(last.out.cvar)
                  /\ IsNaN(last.out.beta) <=> Var(bench) = Zero
                  /\ IsNaN(last.out.sharpe2) <=>
                        (Var(pr) = Zero /\ Mean(pr) = last.rf)

C9_Witness ==
    /\ VolCall
    /\ Len(LastReturns) >= 2
    /\ NoneBelow(LastReturns, last.rf)
    /\ IsNaN(last.out.sortino2)
    /\ IsFinite(last.out.sharpe2)
    /\ last.out.std2 # Zero

\* The latest method call, made again now with the same arguments, returns
\* what it returned.
SameAgain ==
    /\ last.op = "asset_volatility_decomposition" =>
          last.out = asset_volatility_decomposition(LastSelf)
    /\ last.op = "portfolio_return_metrics" =>
          last.out = portfolio_return_metrics(LastSelf)
    /\ last.op = "portfolio_volatility_metrics" =>
          last.out = portfolio_volatility_metrics(LastSelf, last.rf, DefaultAlpha)

\* C10: a call of asset_volatility_decomposition, portfolio_return_metrics or
\* portfolio_volatility_metrics, and a pass of the sweep's metrics loop,
\* change no Portfolio object (the one called or any other); so the latest
\* call, made again with the same arguments, returns what it returned.
C10_NoMutation ==
    /\ [][(last'.op \in Methods \/ pc = "collect") =>
             UNCHANGED <<portfolio_1, portfolio_2, portfolios>>]_vars
    /\ []SameAgain

C10_Witness ==
    /\ last.op = "asset_volatility_decomposition"
    /\ last.out.status = "ok"
    /\ portfolio_1 # <<>>
    /\ portfolio_2 # <<>>
    /\ portfolio_1 # portfolio_2

====
